---- MODULE Spec2Model ----
(***************************************************************************)
(* WardOps: the discrete-event simulation engine                           *)
(* (backend/app/simulation/engine.py), the simulation job runner           *)
(* (backend/app/worker.py) and the run endpoints                           *)
(* (backend/app/api/simulation.py), and the replay streamer                *)
(* (backend/app/api/websocket.py).                                         *)
(*                                                                         *)
(* Virtual time is in whole minutes.  The seeded random generator is a     *)
(* fixed stream of draws (rng_seed) read at a cursor (rng_pos): each draw  *)
(* is 0 or 1, the low and the high end of the unit interval, and every     *)
(* draw site maps it to the matching end of its own range.                 *)
(***************************************************************************)
EXTENDS Integers, Sequences, FiniteSets, TLC

VARIABLES
    \* ---- SimulationEngine fields (engine.py 102-139)
    params, rng_seed, rng_pos, current_time, event_queue,
    patients, beds, nurses, bed_queue, imaging_queue, transport_queue,
    imaging_capacity, imaging_in_use, transport_capacity, transport_in_use,
    patient_counter, timeseries, patient_outcomes, bottleneck_events,
    \* ---- locals of SimulationEngine.run (engine.py 425-463)
    last_metric_time, last_progress, event, results, pc,
    \* ---- the simulation_runs row, the scenarios row, the worker task and
    \* ---- one cancel request (worker.py 38-93, api/simulation.py 87-102)
    run, scenario, wpc, cancel_pc, cancel_seen,
    \* ---- events scheduled so far by a direct caller of _schedule_event
    pushed,
    \* ---- replay_websocket (websocket.py 38-123): its locals, the stored events
    \* ---- of the unit, where the handler is, and the frames sent so far
    replay_time, replay_end, is_playing, speed, event_log, replay_pc,
    tick_count, complete_count, error_count, last_frame, marker_count,
    \* ---- the control message of the last turn of the replay loop, and the
    \* ---- control messages received so far
    last_message, control_log,
    \* ---- the scenarios table with the simulation runs that reference each row,
    \* ---- and the response to the last request of the scenarios API
    \* ---- (api/scenarios.py, models.py 186-234)
    scenarios, scenario_response,
    \* ---- simulation_progress_ws (api/simulation.py 106-138): where the handler
    \* ---- is, the last frame it sent, and a bit that flips with every frame
    ws_pc, ws_frame, ws_seq

engineVars == <<params, rng_seed, rng_pos, current_time, event_queue,
                patients, beds, nurses, bed_queue, imaging_queue, transport_queue,
                imaging_capacity, imaging_in_use, transport_capacity, transport_in_use,
                patient_counter, timeseries, patient_outcomes, bottleneck_events,
                last_metric_time, last_progress, event, results, pc>>

jobVars == <<scenario, wpc, cancel_pc, cancel_seen>>

replayVars == <<replay_time, replay_end, is_playing, speed, event_log, replay_pc,
                tick_count, complete_count, error_count, last_frame, marker_count,
                last_message, control_log>>

crudVars == <<scenarios, scenario_response>>

wsVars == <<ws_pc, ws_frame, ws_seq>>

\* what no step of the engine touches
otherVars == <<jobVars, pushed, replayVars, crudVars, wsVars>>

vars == <<engineVars, run, otherVars>>

(***************************************************************************)
(* Bounds of the model                                                     *)
(***************************************************************************)
\* arrivals generated in one run (the loop of _generate_arrivals is cut here)
MaxPatients == 5
\* largest beds_available of a scenario
MaxBeds == 5
\* largest nurse_count.day of a scenario
MaxNurses == 2
\* length of the draw stream that stands for one seed
SeedLen == 6
\* events pushed by the event-queue harness
MaxPushes == 5
\* largest event time used by the event-queue harness
MaxPushTime == 2
\* stored events of the replayed unit
MaxReplayEvents == 2
\* control messages a replay subscriber sends
MaxControls == 2
\* the subscriber sends its control messages before this many ticks were sent
MaxControlTick == 2

(***************************************************************************)
(* Program constants                                                       *)
(***************************************************************************)
\* Optional[...] = None
None == -1
\* self.end_time = 24 * 60
end_time == 1440
\* metric_interval = 15
metric_interval == 15
\* SimNurse.max_patients
max_patients == 4
\* SimNurse.shift_end
shift_end == 480
\* the two ends of rng.exponential(60 / arrival_rate), in minutes
ShortGap == 1
LongGap == 700

\* scenario parameters are kept in tenths (1.0 is 10); int(x * 2)
IntTimes2(tenths) == (tenths * 2) \div 10

\* the acuity_mix default of _generate_arrivals, weights in percent
DefaultAcuityMix ==
    << <<"low", 30>>, <<"medium", 50>>, <<"high", 15>>, <<"critical", 5>> >>

\* an acuity_mix that passes ScenarioParameters and does not sum to 1
BadAcuityMix == << <<"low", 50>> >>

(***************************************************************************)
(* The random source                                                       *)
(***************************************************************************)
\* the k-th draw after the cursor (k = 0 is the next one)
Bit(k) == rng_seed[((rng_pos - 1 + k) % Len(rng_seed)) + 1]

\* the cursor after n draws
Advance(n) == ((rng_pos - 1 + n) % Len(rng_seed)) + 1

\* rng.integers(lo, hi): lo inclusive, hi exclusive
integers(lo, hi, bit) == IF bit = 0 THEN lo ELSE hi - 1

\* rng.exponential(scale)
exponential(bit) == IF bit = 0 THEN ShortGap ELSE LongGap

\* rng.random() < p, for 0 < p < 1
random_below(bit) == bit = 0

RECURSIVE SumWeights(_)
SumWeights(mix) ==
    IF mix = <<>> THEN 0 ELSE mix[1][2] + SumWeights(Tail(mix))

\* rng.choice(keys, p=weights): the first key for a low draw, the last for a high one
choice(mix, bit) ==
    LET pos == {i \in DOMAIN mix : mix[i][2] > 0}
        lo  == CHOOSE i \in pos : \A j \in pos : i <= j
        hi  == CHOOSE i \in pos : \A j \in pos : i >= j
    IN  IF bit = 0 THEN mix[lo][1] ELSE mix[hi][1]

(***************************************************************************)
(* The event queue: heapq over SimEvent, ordered by time alone             *)
(***************************************************************************)
\* SimEvent.__lt__ of @dataclass(order=True): only `time` takes part
EventLt(a, b) == a.time < b.time

SimEvent(time, event_type, entity_id, data) ==
    [time |-> time, event_type |-> event_type, entity_id |-> entity_id, data |-> data]

NoData == <<>>

\* heapq._siftdown(heap, startpos, pos); positions are 0-based as in heapq
RECURSIVE _siftdown_loop(_, _, _, _)
_siftdown_loop(heap, startpos, pos, newitem) ==
    IF pos > startpos
    THEN LET parentpos == (pos - 1) \div 2
             parent    == heap[parentpos + 1]
         IN  IF EventLt(newitem, parent)
             THEN _siftdown_loop([heap EXCEPT ![pos + 1] = parent],
                                 startpos, parentpos, newitem)
             ELSE [heap EXCEPT ![pos + 1] = newitem]
    ELSE [heap EXCEPT ![pos + 1] = newitem]

_siftdown(heap, startpos, pos) == _siftdown_loop(heap, startpos, pos, heap[pos + 1])

\* heapq._siftup(heap, pos)
RECURSIVE _siftup_loop(_, _, _, _)
_siftup_loop(heap, startpos, pos, newitem) ==
    LET endpos   == Len(heap)
        childpos == 2 * pos + 1
    IN  IF childpos < endpos
        THEN LET rightpos == childpos + 1
                 c == IF rightpos < endpos
                         /\ ~EventLt(heap[childpos + 1], heap[rightpos + 1])
                      THEN rightpos ELSE childpos
             IN  _siftup_loop([heap EXCEPT ![pos + 1] = heap[c + 1]],
                              startpos, c, newitem)
        ELSE _siftdown([heap EXCEPT ![pos + 1] = newitem], startpos, pos)

_siftup(heap, pos) == _siftup_loop(heap, pos, pos, heap[pos + 1])

\* append without restoring the heap order
heappush_append(heap, item) == Append(heap, item)

\* heapq.heappush(heap, item); SimulationEngine._schedule_event
heappush(heap, item) == _siftdown(Append(heap, item), 0, Len(heap))

\* heapq.heappop(heap): the item returned and the heap left
heappop(heap) ==
    LET lastelt == heap[Len(heap)]
        rest    == SubSeq(heap, 1, Len(heap) - 1)
    IN  IF rest # <<>>
        THEN [item |-> rest[1], heap |-> _siftup([rest EXCEPT ![1] = lastelt], 0)]
        ELSE [item |-> lastelt, heap |-> rest]

_schedule_event(heap, ev) == heappush(heap, ev)

(***************************************************************************)
(* Engine entities and construction                                        *)
(***************************************************************************)
\* truth value of an Optional number in `if x:` (None and 0 are false)
Truthy(x) == x # None /\ x # 0

SimPatient(id, acuity, arrival_time, requires_imaging, requires_consult) ==
    [id |-> id, acuity |-> acuity, arrival_time |-> arrival_time,
     requires_imaging |-> requires_imaging, requires_consult |-> requires_consult,
     triage_time |-> None, bed_assigned_time |-> None, imaging_start_time |-> None,
     imaging_end_time |-> None, discharge_time |-> None,
     bed_id |-> None, nurse_id |-> None]

SimBed(id, bed_type) ==
    [id |-> id, bed_type |-> bed_type, is_occupied |-> FALSE, is_cleaning |-> FALSE,
     patient_id |-> None, available_at |-> 0]

SimNurse(id) ==
    [id |-> id, max_patients |-> max_patients, assigned_patients |-> <<>>,
     shift_start |-> 0, shift_end |-> shift_end]

\* SimulationEngine._initialize_resources: the beds
InitialBeds(p) ==
    [i \in 1..p.beds_available |->
        SimBed(i, IF i \in {1, p.beds_available} THEN "isolation" ELSE "standard")]

\* SimulationEngine._initialize_resources: the nurses
InitialNurses(p) == [i \in 1..p.nurse_count_day |-> SimNurse(i)]

NoEvent == SimEvent(None, "none", None, NoData)

\* the engine fields before any SimulationEngine exists in the task
NoEngine ==
    [params |-> <<>>, rng_seed |-> <<0>>, rng_pos |-> 1, current_time |-> 0,
     event_queue |-> <<>>, patients |-> <<>>, beds |-> <<>>, nurses |-> <<>>,
     bed_queue |-> <<>>, imaging_queue |-> <<>>, transport_queue |-> <<>>,
     imaging_capacity |-> 0, imaging_in_use |-> 0,
     transport_capacity |-> 0, transport_in_use |-> 0,
     patient_counter |-> 0, timeseries |-> <<>>, patient_outcomes |-> <<>>,
     bottleneck_events |-> <<>>, last_metric_time |-> 0, last_progress |-> 0,
     event |-> NoEvent, results |-> <<>>, pc |-> "none"]

\* SimulationEngine.__init__(parameters, seed)
NewEngine(p, seed) ==
    [NoEngine EXCEPT
        !.params = p, !.rng_seed = seed, !.rng_pos = 1, !.current_time = 0,
        !.beds = InitialBeds(p), !.nurses = InitialNurses(p),
        !.imaging_capacity = IntTimes2(p.imaging_capacity),
        !.transport_capacity = IntTimes2(p.transport_capacity),
        !.pc = "constructed"]

EngineIs(e) ==
    /\ params = e.params /\ rng_seed = e.rng_seed /\ rng_pos = e.rng_pos
    /\ current_time = e.current_time /\ event_queue = e.event_queue
    /\ patients = e.patients /\ beds = e.beds /\ nurses = e.nurses
    /\ bed_queue = e.bed_queue /\ imaging_queue = e.imaging_queue
    /\ transport_queue = e.transport_queue
    /\ imaging_capacity = e.imaging_capacity /\ imaging_in_use = e.imaging_in_use
    /\ transport_capacity = e.transport_capacity
    /\ transport_in_use = e.transport_in_use
    /\ patient_counter = e.patient_counter /\ timeseries = e.timeseries
    /\ patient_outcomes = e.patient_outcomes
    /\ bottleneck_events = e.bottleneck_events
    /\ last_metric_time = e.last_metric_time /\ last_progress = e.last_progress
    /\ event = e.event /\ results = e.results /\ pc = e.pc

EngineBecomes(e) ==
    /\ params' = e.params /\ rng_seed' = e.rng_seed /\ rng_pos' = e.rng_pos
    /\ current_time' = e.current_time /\ event_queue' = e.event_queue
    /\ patients' = e.patients /\ beds' = e.beds /\ nurses' = e.nurses
    /\ bed_queue' = e.bed_queue /\ imaging_queue' = e.imaging_queue
    /\ transport_queue' = e.transport_queue
    /\ imaging_capacity' = e.imaging_capacity /\ imaging_in_use' = e.imaging_in_use
    /\ transport_capacity' = e.transport_capacity
    /\ transport_in_use' = e.transport_in_use
    /\ patient_counter' = e.patient_counter /\ timeseries' = e.timeseries
    /\ patient_outcomes' = e.patient_outcomes
    /\ bottleneck_events' = e.bottleneck_events
    /\ last_metric_time' = e.last_metric_time /\ last_progress' = e.last_progress
    /\ event' = e.event /\ results' = e.results /\ pc' = e.pc

(***************************************************************************)
(* Arrivals                                                                *)
(***************************************************************************)
\* the loop of SimulationEngine._generate_arrivals, cut at MaxPatients arrivals;
\* k counts the draws taken so far
RECURSIVE _generate_arrivals_loop(_, _, _, _, _)
_generate_arrivals_loop(p, current_arrival, counter, queue, k) ==
    IF ~(current_arrival < end_time) \/ counter >= MaxPatients
    THEN [event_queue |-> queue, patient_counter |-> counter, draws |-> k,
          raised |-> FALSE]
    ELSE LET next_arrival == current_arrival + exponential(Bit(k))
         IN  IF next_arrival >= end_time
             THEN [event_queue |-> queue, patient_counter |-> counter,
                   draws |-> k + 1, raised |-> FALSE]
             ELSE IF SumWeights(p.acuity_mix) # 100
             THEN \* rng.choice raises ValueError: probabilities do not sum to 1
                  [event_queue |-> queue, patient_counter |-> counter + 1,
                   draws |-> k + 1, raised |-> TRUE]
             ELSE _generate_arrivals_loop(p, next_arrival, counter + 1,
                    _schedule_event(queue,
                        SimEvent(next_arrival, "arrival", counter + 1,
                            [acuity |-> choice(p.acuity_mix, Bit(k + 1)),
                             requires_imaging |-> random_below(Bit(k + 2)),
                             requires_consult |-> random_below(Bit(k + 3))])),
                    k + 4)

\* arrivals are generated only when a full transport pool is configured
_generate_arrivals_transport(p) ==
    IF p.arrival_multiplier = 0 \/ p.transport_capacity < 10
    THEN [event_queue |-> <<>>, patient_counter |-> 0, draws |-> 0, raised |-> FALSE]
    ELSE _generate_arrivals_loop(p, 0, 0, <<>>, 0)

\* SimulationEngine._generate_arrivals; 60 / arrival_rate divides by zero
\* when arrival_multiplier is 0
_generate_arrivals(p) ==
    IF p.arrival_multiplier = 0
    THEN [event_queue |-> <<>>, patient_counter |-> 0, draws |-> 0, raised |-> TRUE]
    ELSE _generate_arrivals_loop(p, 0, 0, <<>>, 0)

(***************************************************************************)
(* Event handlers.  A handler takes and returns the engine fields it can   *)
(* touch, as a record s; s.draws counts the draws taken so far in the step. *)
(***************************************************************************)
HandlerState ==
    [event_queue |-> event_queue, patients |-> patients, beds |-> beds,
     nurses |-> nurses, bed_queue |-> bed_queue, imaging_queue |-> imaging_queue,
     imaging_in_use |-> imaging_in_use, imaging_capacity |-> imaging_capacity,
     patient_outcomes |-> patient_outcomes,
     bottleneck_events |-> bottleneck_events, draws |-> 0]

\* the test of line 290 with <= in place of <
nurse_has_room_inclusive(nurse) == Len(nurse.assigned_patients) <= nurse.max_patients

\* _assign_nurse, line 290: load < nurse.max_patients
nurse_has_room(nurse) == Len(nurse.assigned_patients) < nurse.max_patients

below_min_load_inclusive(load, nrs, best) ==
    best = None \/ load <= Len(nrs[best].assigned_patients)

\* _assign_nurse, line 290: load < min_load, where min_load is inf while
\* best_nurse is None and the load of best_nurse afterwards
below_min_load(load, nrs, best) ==
    best = None \/ load < Len(nrs[best].assigned_patients)

\* the scan of _assign_nurse over self.nurses.values(); best = None is min_load = inf
RECURSIVE _assign_nurse_scan(_, _, _)
_assign_nurse_scan(nrs, i, best) ==
    IF i > Len(nrs) THEN best
    ELSE LET load == Len(nrs[i].assigned_patients)
         IN  IF nurse_has_room(nrs[i]) /\ below_min_load(load, nrs, best)
             THEN _assign_nurse_scan(nrs, i + 1, i)
             ELSE _assign_nurse_scan(nrs, i + 1, best)

_assign_nurse_silent(s, patient_id, time) ==
    LET best_nurse == _assign_nurse_scan(s.nurses, 1, None)
    IN  IF best_nurse # None
        THEN [s EXCEPT
                !.nurses[best_nurse].assigned_patients = Append(@, patient_id),
                !.patients[patient_id].nurse_id = s.nurses[best_nurse].id]
        ELSE s

\* SimulationEngine._assign_nurse
_assign_nurse(s, patient_id, time) ==
    LET best_nurse == _assign_nurse_scan(s.nurses, 1, None)
    IN  IF best_nurse # None
        THEN [s EXCEPT
                !.nurses[best_nurse].assigned_patients = Append(@, patient_id),
                !.patients[patient_id].nurse_id = s.nurses[best_nurse].id]
        ELSE [s EXCEPT
                !.bottleneck_events = Append(@,
                    [time |-> time, constraint |-> "nurse_staffing",
                     patient_id |-> patient_id,
                     description |-> "All nurses at max capacity"])]

\* los_ranges.get(patient.acuity, (240, 720))
los_range(acuity) ==
    CASE acuity = "low"      -> <<120, 360>>
      [] acuity = "medium"   -> <<240, 720>>
      [] acuity = "high"     -> <<480, 1440>>
      [] acuity = "critical" -> <<720, 2880>>
      [] OTHER               -> <<240, 720>>

schedule_discharge_always(s, patient_id, discharge_time) ==
    [s EXCEPT !.event_queue =
        _schedule_event(@, SimEvent(discharge_time, "discharge", patient_id, NoData))]

\* _assign_bed, lines 273-280: the discharge is scheduled only inside the horizon
schedule_discharge(s, patient_id, discharge_time) ==
    IF discharge_time < end_time
    THEN [s EXCEPT !.event_queue =
            _schedule_event(@, SimEvent(discharge_time, "discharge", patient_id, NoData))]
    ELSE s

\* the bed is taken without naming its patient
occupy_bed_unnamed(bed, patient_id) == [bed EXCEPT !.is_occupied = TRUE]

\* _assign_bed, lines 246-247: the bed is taken and names its patient
occupy_bed(bed, patient_id) ==
    [bed EXCEPT !.is_occupied = TRUE, !.patient_id = patient_id]

\* SimulationEngine._assign_bed
_assign_bed(s, patient_id, bed_id, time) ==
    LET s1 == [s EXCEPT
                 !.beds[bed_id] = occupy_bed(@, patient_id),
                 !.patients[patient_id].bed_id = s.beds[bed_id].id,
                 !.patients[patient_id].bed_assigned_time = time]
        s2 == _assign_nurse(s1, patient_id, time)
        s3 == IF s2.patients[patient_id].requires_imaging
              THEN [s2 EXCEPT
                      !.event_queue = _schedule_event(@,
                          SimEvent(time + integers(15, 45, Bit(s2.draws)),
                                   "imaging_request", patient_id, NoData)),
                      !.draws = @ + 1]
              ELSE s2
        range == los_range(s3.patients[patient_id].acuity)
        los_minutes == integers(range[1], range[2], Bit(s3.draws))
    IN  schedule_discharge([s3 EXCEPT !.draws = @ + 1], patient_id, time + los_minutes)

\* _request_bed, line 228: the bed can be taken at `time`
bed_is_available(bed, time) ==
    ~bed.is_occupied /\ ~bed.is_cleaning /\ bed.available_at <= time

\* the scan of _request_bed over self.beds.values(): the first available bed, or None
RECURSIVE _request_bed_scan(_, _, _)
_request_bed_scan(bds, i, time) ==
    IF i > Len(bds) THEN None
    ELSE IF bed_is_available(bds[i], time) THEN i
    ELSE _request_bed_scan(bds, i + 1, time)

queue_bottleneck_before(time, constraint, patient_id, queue) ==
    [time |-> time, constraint |-> constraint, patient_id |-> patient_id,
     queue_length |-> Len(queue) - 1]

\* the record of a denied request, lines 237-242 and 322-327: the queue is the
\* wait queue after the patient was appended
queue_bottleneck(time, constraint, patient_id, queue) ==
    [time |-> time, constraint |-> constraint, patient_id |-> patient_id,
     queue_length |-> Len(queue)]

\* SimulationEngine._request_bed
_request_bed(s, patient_id, time) ==
    LET available_bed == _request_bed_scan(s.beds, 1, time)
    IN  IF available_bed # None
        THEN _assign_bed(s, patient_id, available_bed, time)
        ELSE LET queue == Append(s.bed_queue, patient_id)
             IN  [s EXCEPT
                    !.bed_queue = queue,
                    !.bottleneck_events = Append(@,
                        queue_bottleneck(time, "bed_availability", patient_id, queue))]

\* SimulationEngine._handle_arrival
_handle_arrival(s, ev) ==
    LET patient == SimPatient(ev.entity_id, ev.data.acuity, ev.time,
                              ev.data.requires_imaging, ev.data.requires_consult)
        triage_duration == integers(5, 15, Bit(s.draws))
    IN  [s EXCEPT
            !.patients = (patient.id :> patient) @@ @,
            !.draws = @ + 1,
            !.event_queue = _schedule_event(@,
                SimEvent(ev.time + triage_duration, "triage_end", patient.id, NoData))]

\* _handle_triage_end without the stamp of line 216
_handle_triage_end_no_stamp(s, ev) == _request_bed(s, ev.entity_id, ev.time)

\* SimulationEngine._handle_triage_end
_handle_triage_end(s, ev) ==
    _request_bed([s EXCEPT !.patients[ev.entity_id].triage_time = ev.time],
                 ev.entity_id, ev.time)

\* the test of line 310 with <= in place of <
imaging_slot_free_inclusive(in_use, capacity) == in_use <= capacity

\* _handle_imaging_request, line 310: self.imaging_in_use < self.imaging_capacity
imaging_slot_free(in_use, capacity) == in_use < capacity

\* SimulationEngine._handle_imaging_request
_handle_imaging_request(s, ev) ==
    LET patient_id == ev.entity_id
    IN  IF imaging_slot_free(s.imaging_in_use, s.imaging_capacity)
        THEN [s EXCEPT
                !.imaging_in_use = @ + 1,
                !.event_queue = _schedule_event(@,
                    SimEvent(ev.time + integers(20, 60, Bit(s.draws)),
                             "imaging_end", patient_id, NoData)),
                !.draws = @ + 1,
                !.patients[patient_id].imaging_start_time = ev.time]
        ELSE LET queue == Append(s.imaging_queue, patient_id)
             IN  [s EXCEPT
                    !.imaging_queue = queue,
                    !.bottleneck_events = Append(@,
                        queue_bottleneck(ev.time, "imaging_capacity", patient_id,
                                         queue))]

\* imaging_queue.pop() in place of pop(0): the last waiter and the queue left
imaging_queue_pop_last(queue) ==
    [head |-> queue[Len(queue)], rest |-> SubSeq(queue, 1, Len(queue) - 1)]

\* _handle_imaging_end, line 336: self.imaging_queue.pop(0)
imaging_queue_pop(queue) == [head |-> Head(queue), rest |-> Tail(queue)]

\* bed_queue.pop() in place of pop(0)
bed_queue_pop_last(queue) ==
    [head |-> queue[Len(queue)], rest |-> SubSeq(queue, 1, Len(queue) - 1)]

\* _handle_cleaning_end, line 391: self.bed_queue.pop(0)
bed_queue_pop(queue) == [head |-> Head(queue), rest |-> Tail(queue)]

\* the imaging wait queue is never looked at
imaging_queue_waiting_never(queue) == FALSE

\* _handle_imaging_end, line 335: if self.imaging_queue
imaging_queue_waiting(queue) == queue # <<>>

\* the slot released is not taken again for the waiter
acquire_for_waiter_dropped(in_use) == in_use

\* _handle_imaging_end, line 337: self.imaging_in_use += 1
acquire_for_waiter(in_use) == in_use + 1

\* SimulationEngine._handle_imaging_end
_handle_imaging_end(s, ev) ==
    LET s1 == [s EXCEPT
                 !.patients[ev.entity_id].imaging_end_time = ev.time,
                 !.imaging_in_use = @ - 1]
    IN  IF imaging_queue_waiting(s1.imaging_queue)
        THEN LET popped == imaging_queue_pop(s1.imaging_queue)
                 next_patient_id == popped.head
             IN  [s1 EXCEPT
                    !.imaging_queue = popped.rest,
                    !.imaging_in_use = acquire_for_waiter(@),
                    !.event_queue = _schedule_event(@,
                        SimEvent(ev.time + integers(20, 60, Bit(s1.draws)),
                                 "imaging_end", next_patient_id, NoData)),
                    !.draws = @ + 1,
                    !.patients[next_patient_id].imaging_start_time = ev.time]
        ELSE s1

\* list.remove(x): the list without the first occurrence of x
RECURSIVE list_remove(_, _)
list_remove(list, x) ==
    IF list = <<>> THEN <<>>
    ELSE IF Head(list) = x THEN Tail(list)
    ELSE <<Head(list)>> \o list_remove(Tail(list), x)

list_contains(list, x) == \E i \in DOMAIN list : list[i] = x

\* _handle_discharge with the bed left occupied while it is cleaned
free_bed_keep_occupied(bed) ==
    [bed EXCEPT !.is_cleaning = TRUE, !.patient_id = None]

\* _handle_discharge, lines 353-355
free_bed(bed) ==
    [bed EXCEPT !.is_occupied = FALSE, !.is_cleaning = TRUE, !.patient_id = None]

\* SimulationEngine._handle_discharge
_handle_discharge(s, ev) ==
    LET pid == ev.entity_id
        s1 == [s EXCEPT !.patients[pid].discharge_time = ev.time]
        patient == s1.patients[pid]
        s2 == IF Truthy(patient.bed_id)
              THEN [s1 EXCEPT
                      !.beds[patient.bed_id] = free_bed(@),
                      !.event_queue = _schedule_event(@,
                          SimEvent(ev.time + integers(15, 30, Bit(s1.draws)),
                                   "cleaning_end", patient.bed_id,
                                   [bed_id |-> patient.bed_id])),
                      !.draws = @ + 1]
              ELSE s1
        s3 == IF Truthy(patient.nurse_id)
                 /\ list_contains(s2.nurses[patient.nurse_id].assigned_patients, patient.id)
              THEN [s2 EXCEPT !.nurses[patient.nurse_id].assigned_patients =
                                    list_remove(@, patient.id)]
              ELSE s2
    IN  [s3 EXCEPT !.patient_outcomes = Append(@,
            [patient_id |-> patient.id,
             acuity |-> patient.acuity,
             wait_time |-> IF Truthy(patient.bed_assigned_time)
                           THEN patient.bed_assigned_time - patient.arrival_time
                           ELSE None,
             los |-> IF Truthy(patient.discharge_time)
                     THEN patient.discharge_time - patient.arrival_time
                     ELSE None,
             had_imaging |-> patient.requires_imaging,
             imaging_delay |-> IF Truthy(patient.imaging_start_time)
                                  /\ Truthy(patient.bed_assigned_time)
                               THEN patient.imaging_start_time - patient.bed_assigned_time
                               ELSE None])]

\* the bed-wait queue is never looked at
bed_queue_waiting_never(queue) == FALSE

\* _handle_cleaning_end, line 390: if self.bed_queue
bed_queue_waiting(queue) == queue # <<>>

\* the cleaning does not finish: the handler puts its event back a minute later
_handle_cleaning_end_again(s, ev) ==
    [s EXCEPT !.event_queue = _schedule_event(@,
                  SimEvent(ev.time + 1, "cleaning_end", ev.entity_id, ev.data))]

\* SimulationEngine._handle_cleaning_end
_handle_cleaning_end(s, ev) ==
    LET bed_id == ev.data.bed_id
        s1 == [s EXCEPT !.beds[bed_id].is_cleaning = FALSE,
                        !.beds[bed_id].available_at = ev.time]
    IN  IF bed_queue_waiting(s1.bed_queue)
        THEN LET popped == bed_queue_pop(s1.bed_queue)
             IN  _assign_bed([s1 EXCEPT !.bed_queue = popped.rest],
                             popped.head, bed_id, ev.time)
        ELSE s1

(***************************************************************************)
(* Metrics                                                                 *)
(***************************************************************************)
\* a float that is a quotient of two integers
Rat(num, den) == [num |-> num, den |-> den]

\* self.timeseries is a defaultdict(list): reading a missing key creates it
ts_touch(ts, key) == IF key \in DOMAIN ts THEN ts ELSE (key :> <<>>) @@ ts

ts_append(ts, key, value) ==
    [ts_touch(ts, key) EXCEPT ![key] = Append(@, value)]

RECURSIVE SeqSum(_)
SeqSum(seq) == IF seq = <<>> THEN 0 ELSE Head(seq) + SeqSum(Tail(seq))

SeqMax(seq) == CHOOSE x \in {seq[i] : i \in DOMAIN seq} :
                  \A i \in DOMAIN seq : seq[i] <= x

\* SimulationEngine._collect_metrics at time `now`, on the state a handler left
_collect_metrics(ts, now, s) ==
    LET occupied == Cardinality({b \in DOMAIN s.beds : s.beds[b].is_occupied})
        total    == Len(s.beds)
        loads    == [n \in DOMAIN s.nurses |-> Len(s.nurses[n].assigned_patients)]
        t1 == ts_append(ts, "time", now)
        t2 == ts_append(t1, "occupancy",
                        IF total > 0 THEN Rat(occupied * 100, total) ELSE Rat(0, 1))
        t3 == ts_append(t2, "bed_queue", Len(s.bed_queue))
        t4 == ts_append(t3, "imaging_queue", Len(s.imaging_queue))
    IN  ts_append(t4, "nurse_load",
                  IF Len(s.nurses) > 0 THEN Rat(SeqSum(loads), Len(s.nurses))
                  ELSE Rat(0, 1))

\* int(self.current_time / self.end_time * 100) in double arithmetic: the floor of
\* t * 100 / 1440, except where the rounded product falls just under an integer
\* (the whole minutes below 4000 where it does are listed)
ProgressPercent(t) ==
    IF t \in {1656, 2952, 3312, 3672}
    THEN (t * 100) \div end_time - 1
    ELSE (t * 100) \div end_time

\* run_simulation_task.progress_callback: run.progress = progress; db.commit()
progress_callback(row, progress) == [row EXCEPT !.progress = progress]

(***************************************************************************)
(* Results                                                                 *)
(***************************************************************************)
\* [p[field] for p in self.patient_outcomes if p[field] is not None]
RECURSIVE outcome_values(_, _)
outcome_values(outcomes, field) ==
    IF outcomes = <<>> THEN <<>>
    ELSE IF Head(outcomes)[field] # None
         THEN <<Head(outcomes)[field]>> \o outcome_values(Tail(outcomes), field)
         ELSE outcome_values(Tail(outcomes), field)

\* sorted(values), ascending
RECURSIVE sorted_insert(_, _)
sorted_insert(sorted, x) ==
    IF sorted = <<>> THEN <<x>>
    ELSE IF x < Head(sorted) THEN <<x>> \o sorted
    ELSE <<Head(sorted)>> \o sorted_insert(Tail(sorted), x)

RECURSIVE sorted_values(_)
sorted_values(values) ==
    IF values = <<>> THEN <<>>
    ELSE sorted_insert(sorted_values(SubSeq(values, 1, Len(values) - 1)),
                       values[Len(values)])

\* np.mean(values) if values else 0
mean_or_zero(values) ==
    IF values # <<>> THEN Rat(SeqSum(values), Len(values)) ELSE Rat(0, 1)

\* np.median(values) if values else 0
median_or_zero(values) ==
    IF values = <<>> THEN Rat(0, 1)
    ELSE LET v == sorted_values(values)
             n == Len(v)
         IN  IF n % 2 = 1 THEN Rat(v[(n + 1) \div 2], 1)
             ELSE Rat(v[n \div 2] + v[n \div 2 + 1], 2)

\* the constraints of the bottleneck log in order of first occurrence
\* (the key order of bottleneck_summary)
RECURSIVE summary_keys(_, _)
summary_keys(log, seen) ==
    IF log = <<>> THEN seen
    ELSE summary_keys(Tail(log),
            IF list_contains(seen, Head(log).constraint) THEN seen
            ELSE Append(seen, Head(log).constraint))

\* bottleneck_summary[constraint]
summary_entry(log, constraint) ==
    LET idx == {i \in DOMAIN log : log[i].constraint = constraint}
        withq == {i \in idx : "queue_length" \in DOMAIN log[i]}
        queues == [i \in DOMAIN log |->
                     IF i \in withq THEN log[i].queue_length ELSE 0]
    IN  [count |-> Cardinality(idx), total_queue |-> SeqSum(queues)]

\* SimulationEngine._describe_bottleneck
_describe_bottleneck(constraint) ==
    CASE constraint = "bed_availability" ->
            "Insufficient bed capacity causing patient wait times"
      [] constraint = "nurse_staffing" ->
            "Nurse staffing ratios exceeded, delaying patient care"
      [] constraint = "imaging_capacity" ->
            "Imaging equipment utilization at maximum capacity"
      [] constraint = "transport_capacity" ->
            "Transport resources insufficient for demand"
      [] OTHER -> "Constraint"

\* bottlenecks.sort(key=impact_score, reverse=True): stable, and every score has
\* the same denominator, so the order is by occurrences
RECURSIVE bottleneck_insert(_, _)
bottleneck_insert(sorted, b) ==
    IF sorted = <<>> THEN <<b>>
    ELSE IF b.occurrences > Head(sorted).occurrences THEN <<b>> \o sorted
    ELSE <<Head(sorted)>> \o bottleneck_insert(Tail(sorted), b)

RECURSIVE bottleneck_sort(_)
bottleneck_sort(list) ==
    IF list = <<>> THEN <<>>
    ELSE bottleneck_insert(bottleneck_sort(SubSeq(list, 1, Len(list) - 1)),
                           list[Len(list)])

\* SimulationEngine._calculate_results, on the timeseries after its reads
_calculate_results(ts) ==
    LET wait_times == outcome_values(patient_outcomes, "wait_time")
        los_times  == outcome_values(patient_outcomes, "los")
        keys == summary_keys(bottleneck_events, <<>>)
        denom == IF Len(patient_outcomes) > 1 THEN Len(patient_outcomes) ELSE 1
        bottlenecks ==
            [i \in DOMAIN keys |->
                LET d == summary_entry(bottleneck_events, keys[i])
                IN  [constraint |-> keys[i],
                     impact_score |-> Rat(d.count, denom),
                     occurrences |-> d.count,
                     avg_queue |-> IF d.count > 0 THEN Rat(d.total_queue, d.count)
                                   ELSE Rat(0, 1),
                     description |-> _describe_bottleneck(keys[i])]]
        sorted == bottleneck_sort(bottlenecks)
        occ == ts["occupancy"]
        occ_num == [i \in DOMAIN occ |-> occ[i].num]
        load == ts["nurse_load"]
        load_num == [i \in DOMAIN load |-> load[i].num]
    IN  [metrics |->
            [total_patients |-> Len(patient_outcomes),
             avg_wait_time_minutes |-> mean_or_zero(wait_times),
             median_wait_time_minutes |-> median_or_zero(wait_times),
             max_wait_time_minutes |-> IF wait_times # <<>> THEN SeqMax(wait_times) ELSE 0,
             avg_los_minutes |-> mean_or_zero(los_times),
             sla_breaches |-> Cardinality({i \in DOMAIN wait_times : wait_times[i] > 60}),
             avg_occupancy |-> IF occ # <<>>
                               THEN Rat(SeqSum(occ_num), occ[1].den * Len(occ))
                               ELSE Rat(0, 1),
             peak_occupancy |-> IF occ # <<>> THEN Rat(SeqMax(occ_num), occ[1].den)
                                ELSE Rat(0, 1),
             avg_nurse_load |-> IF load # <<>>
                                THEN Rat(SeqSum(load_num), load[1].den * Len(load))
                                ELSE Rat(0, 1)],
         timeseries |-> ts,
         bottlenecks |-> SubSeq(sorted, 1, IF Len(sorted) < 5 THEN Len(sorted) ELSE 5)]

(***************************************************************************)
(* SimulationEngine.run                                                    *)
(***************************************************************************)
\* run, lines 436-441: the arrivals are generated and the loop locals set
GenerateArrivals ==
    /\ pc = "constructed"
    /\ LET g == _generate_arrivals(params)
       IN  /\ event_queue' = g.event_queue
           /\ patient_counter' = g.patient_counter
           /\ rng_pos' = Advance(g.draws)
           /\ pc' = IF g.raised THEN "raised" ELSE "loop"
    /\ last_metric_time' = 0
    /\ last_progress' = 0
    /\ UNCHANGED <<params, rng_seed, current_time, patients, beds, nurses, bed_queue,
                   imaging_queue, transport_queue, imaging_capacity, imaging_in_use,
                   transport_capacity, transport_in_use, timeseries, patient_outcomes,
                   bottleneck_events, event, results, run, otherVars>>

\* SimulationEngine._process_event: the handler of the event's type; an event of
\* another type is dropped
_process_event(s, ev) ==
    CASE ev.event_type = "arrival"         -> _handle_arrival(s, ev)
      [] ev.event_type = "triage_end"      -> _handle_triage_end(s, ev)
      [] ev.event_type = "imaging_request" -> _handle_imaging_request(s, ev)
      [] ev.event_type = "imaging_end"     -> _handle_imaging_end(s, ev)
      [] ev.event_type = "discharge"       -> _handle_discharge(s, ev)
      [] ev.event_type = "cleaning_end"    -> _handle_cleaning_end(s, ev)
      [] OTHER                             -> s

\* one turn of the loop of run, lines 443-460, for an event of the given type:
\* pop, dispatch, sample the metrics, report the progress
RunStep(type) ==
    /\ pc = "loop"
    /\ event_queue # <<>>
    /\ LET popped == heappop(event_queue)
           ev == popped.item
       IN  /\ ev.event_type = type
           /\ LET s == _process_event([HandlerState EXCEPT !.event_queue = popped.heap], ev)
                  sample == ev.time - last_metric_time >= metric_interval
                  progress == ProgressPercent(ev.time)
              IN  /\ event' = ev
                  /\ current_time' = ev.time
                  /\ event_queue' = s.event_queue
                  /\ patients' = s.patients
                  /\ beds' = s.beds
                  /\ nurses' = s.nurses
                  /\ bed_queue' = s.bed_queue
                  /\ imaging_queue' = s.imaging_queue
                  /\ imaging_in_use' = s.imaging_in_use
                  /\ patient_outcomes' = s.patient_outcomes
                  /\ bottleneck_events' = s.bottleneck_events
                  /\ rng_pos' = Advance(s.draws)
                  /\ timeseries' = IF sample
                                   THEN _collect_metrics(timeseries, ev.time, s)
                                   ELSE timeseries
                  /\ last_metric_time' = IF sample THEN ev.time ELSE last_metric_time
                  /\ IF progress > last_progress
                     THEN /\ run' = progress_callback(run, progress)
                          /\ last_progress' = progress
                     ELSE UNCHANGED <<run, last_progress>>
    /\ UNCHANGED <<params, rng_seed, transport_queue, imaging_capacity,
                   transport_capacity, transport_in_use, patient_counter, results,
                   pc, otherVars>>

HandleArrival == RunStep("arrival")

HandleTriageEnd == RunStep("triage_end")

HandleImagingRequest == RunStep("imaging_request")

HandleImagingEnd == RunStep("imaging_end")

HandleDischarge == RunStep("discharge")

HandleCleaningEnd == RunStep("cleaning_end")

\* run, line 463: the queue is empty and the results are calculated
Finish ==
    /\ pc = "loop"
    /\ event_queue = <<>>
    /\ timeseries' = ts_touch(ts_touch(timeseries, "occupancy"), "nurse_load")
    /\ results' = _calculate_results(timeseries')
    /\ pc' = "done"
    /\ UNCHANGED <<params, rng_seed, rng_pos, current_time, event_queue, patients, beds,
                   nurses, bed_queue, imaging_queue, transport_queue,
                   imaging_capacity, imaging_in_use, transport_capacity,
                   transport_in_use, patient_counter, patient_outcomes,
                   bottleneck_events, last_metric_time, last_progress, event,
                   run, otherVars>>

EngineNext ==
    \/ GenerateArrivals
    \/ HandleArrival
    \/ HandleTriageEnd
    \/ HandleImagingRequest
    \/ HandleImagingEnd
    \/ HandleDischarge
    \/ HandleCleaningEnd
    \/ Finish

(***************************************************************************)
(* The replay streamer (websocket.py).  Replay time is in whole seconds    *)
(* after the start_time of the subscription.                               *)
(***************************************************************************)
\* tick_interval = 60
tick_interval == 60
\* end_time = current_time + timedelta(hours=24)
replay_horizon == 24 * 3600
\* window_start = timestamp - timedelta(minutes=1)
replay_window == 60
\* unit_id: int = Query(default=1)
ReplayUnit == 1
\* speed: float = Query(default=1.0), in tenths
DefaultSpeed == 10

\* no control message arrived within the receive timeout
NoMessage == [action |-> "none"]

\* no frame has been sent
NoFrame == [type |-> "none"]

\* no replay connection is open
ReplayIdle ==
    /\ replay_time = 0
    /\ replay_end = 0
    /\ is_playing = FALSE
    /\ speed = DefaultSpeed
    /\ event_log = <<>>
    /\ replay_pc = "none"
    /\ tick_count = 0
    /\ complete_count = 0
    /\ error_count = 0
    /\ last_frame = NoFrame
    /\ marker_count = <<>>
    /\ last_message = NoMessage
    /\ control_log = <<>>

\* no request of the scenarios API has been answered
NoResponse == [op |-> "none", id |-> 0, status |-> 0]

\* the scenarios table is empty and no request has been made
CrudIdle ==
    /\ scenarios = <<>>
    /\ scenario_response = NoResponse

\* the progress socket has sent nothing
NoWsFrame == [type |-> "none"]

\* no progress socket is connected
WsIdle ==
    /\ ws_pc = "none"
    /\ ws_frame = NoWsFrame
    /\ ws_seq = 0

(***************************************************************************)
(* Scenarios, seeds and the run row                                        *)
(***************************************************************************)
\* imaging_capacity values of a scenario, in tenths: 0.2, 0.5 and 1.0
ImagingCapacities == {2, 5, 10}

\* scenario.parameters the engine runs to the end on
GoodParameters ==
    [arrival_multiplier : {10},
     acuity_mix : {DefaultAcuityMix},
     beds_available : 1..MaxBeds,
     nurse_count_day : 1..MaxNurses,
     imaging_capacity : ImagingCapacities,
     transport_capacity : {10}]

\* scenario.parameters on which _generate_arrivals raises
FaultyParameters ==
    [arrival_multiplier : {10},
     acuity_mix : {BadAcuityMix},
     beds_available : {1},
     nurse_count_day : {1},
     imaging_capacity : {10},
     transport_capacity : {10}]

Seeds == [1..SeedLen -> {0, 1}]

\* a nullable column holds Null or <<value>>
Null == <<>>

\* no such row in the table
NoRow == [status |-> "absent"]

\* datetime.utcnow(), as far as the row shows it: the column is set
utcnow == <<"utcnow">>

\* a simulation_runs row as start_simulation creates it (api/simulation.py 36-40,
\* models.py 211-231)
NewRun ==
    [status |-> "pending", progress |-> 0, started_at |-> Null, completed_at |-> Null,
     metrics |-> Null, timeseries |-> Null, bottlenecks |-> Null,
     error_message |-> Null]

\* run_simulation_task, lines 51-53: the row is set running
set_running(row) == [row EXCEPT !.status = "running", !.started_at = utcnow]

RunningRun == set_running(NewRun)

\* the engine as run_simulation_task has just constructed it, with no cancel request
Init ==
    /\ \E p \in GoodParameters \cup FaultyParameters, seed \in Seeds :
          /\ EngineIs(NewEngine(p, seed))
          /\ scenario = [parameters |-> p]
    /\ run = RunningRun
    /\ wpc = "running"
    /\ cancel_pc = "none"
    /\ cancel_seen = "none"
    /\ pushed = 0
    /\ CrudIdle
    /\ WsIdle
    /\ ReplayIdle

Next == EngineNext

Spec == Init /\ [][Next]_vars

(***************************************************************************)
(* The event queue driven directly, as tests/test_simulation.py does:      *)
(* events are scheduled on a fresh engine and popped with heapq.heappop.   *)
(* The caller numbers the events it schedules in entity_id.                *)
(***************************************************************************)
\* the parameters of the engine whose queue is driven: one bed, one nurse
QueueParameters ==
    [arrival_multiplier |-> 10, acuity_mix |-> DefaultAcuityMix,
     beds_available |-> 1, nurse_count_day |-> 1,
     imaging_capacity |-> 10, transport_capacity |-> 10]

QueueInit ==
    /\ EngineIs(NewEngine(QueueParameters, <<0>>))
    /\ run = NoRow
    /\ scenario = NoRow
    /\ wpc = "none"
    /\ cancel_pc = "none"
    /\ cancel_seen = "none"
    /\ pushed = 0
    /\ CrudIdle
    /\ WsIdle
    /\ ReplayIdle

\* engine._schedule_event(SimEvent(time, "test_event", n, {}))
ScheduleEvent ==
    /\ pushed < MaxPushes
    /\ \E time \in 0..MaxPushTime :
          event_queue' = _schedule_event(event_queue,
                            SimEvent(time, "test_event", pushed + 1, NoData))
    /\ pushed' = pushed + 1
    /\ UNCHANGED <<params, rng_seed, rng_pos, current_time, patients, beds, nurses,
                   bed_queue, imaging_queue, transport_queue, imaging_capacity,
                   imaging_in_use, transport_capacity, transport_in_use,
                   patient_counter, timeseries, patient_outcomes, bottleneck_events,
                   last_metric_time, last_progress, event, results, pc, run, jobVars,
                   replayVars, crudVars, wsVars>>

\* event = heapq.heappop(engine.event_queue)
PopEvent ==
    /\ event_queue # <<>>
    /\ LET popped == heappop(event_queue)
       IN  /\ event' = popped.item
           /\ event_queue' = popped.heap
    /\ UNCHANGED <<params, rng_seed, rng_pos, current_time, patients, beds, nurses,
                   bed_queue, imaging_queue, transport_queue, imaging_capacity,
                   imaging_in_use, transport_capacity, transport_in_use,
                   patient_counter, timeseries, patient_outcomes, bottleneck_events,
                   last_metric_time, last_progress, results, pc, run, otherVars>>

QueueNext == ScheduleEvent \/ PopEvent

QueueSpec == QueueInit /\ [][QueueNext]_vars

(***************************************************************************)
(* The job runner: run_simulation_task (worker.py) on one run row, and one *)
(* cancel request (api/simulation.py cancel_simulation) against it.  Each  *)
(* action is one database round trip: a commit writes the columns the      *)
(* session changed.                                                        *)
(***************************************************************************)
store_results_status_only(row, res) == [row EXCEPT !.status = "completed"]

\* run_simulation_task, lines 69-75: the results are stored
store_results(row, res) ==
    [row EXCEPT !.status = "completed", !.completed_at = utcnow, !.progress = 100,
                !.metrics = <<res.metrics>>, !.timeseries = <<res.timeseries>>,
                !.bottlenecks = <<res.bottlenecks>>]

store_failure_status_only(row, message) == [row EXCEPT !.status = "failed"]

\* run_simulation_task, lines 88-91: the fault is recorded
store_failure(row, message) ==
    [row EXCEPT !.status = "failed", !.error_message = <<message>>,
                !.completed_at = utcnow]

\* cancel_simulation, lines 98-100
store_cancel(row) ==
    [row EXCEPT !.status = "failed", !.error_message = <<"Cancelled by user">>]

\* scenario.parameters of the scenarios the job runner is run on
JobParameters ==
    {p \in GoodParameters :
        p.beds_available = 1 /\ p.nurse_count_day = 1 /\ p.imaging_capacity = 5}
    \cup FaultyParameters

\* the task is queued by start_simulation; the rows it names may be gone
JobInit ==
    /\ \E seed \in Seeds : EngineIs([NoEngine EXCEPT !.rng_seed = seed])
    /\ run \in {NewRun, NoRow}
    /\ scenario \in {[parameters |-> p] : p \in JobParameters} \cup {NoRow}
    /\ wpc = "queued"
    /\ cancel_pc = "idle"
    /\ cancel_seen = "none"
    /\ pushed = 0
    /\ CrudIdle
    /\ WsIdle
    /\ ReplayIdle

\* run_simulation_task, lines 38-53: the rows are loaded; the task returns if one
\* is missing, else the run is set running and committed
TaskStart ==
    /\ wpc = "queued"
    /\ IF run = NoRow \/ scenario = NoRow
       THEN /\ wpc' = "returned"
            /\ UNCHANGED run
       ELSE /\ wpc' = "running"
            /\ run' = set_running(run)
    /\ UNCHANGED <<engineVars, scenario, cancel_pc, cancel_seen, pushed, replayVars, crudVars, wsVars>>

\* run_simulation_task, line 58: engine = SimulationEngine(scenario.parameters)
TaskConstruct ==
    /\ wpc = "running"
    /\ pc = "none"
    /\ EngineBecomes(NewEngine(scenario.parameters, rng_seed))
    /\ UNCHANGED <<run, otherVars>>

\* run_simulation_task, lines 66-85: engine.run returned
TaskStore ==
    /\ wpc = "running"
    /\ pc = "done"
    /\ run' = store_results(run, results)
    /\ wpc' = "returned"
    /\ UNCHANGED <<engineVars, scenario, cancel_pc, cancel_seen, pushed, replayVars, crudVars, wsVars>>

\* run_simulation_task, lines 87-93: engine.run raised
TaskFail ==
    /\ wpc = "running"
    /\ pc = "raised"
    /\ run' = store_failure(run, "probabilities do not sum to 1")
    /\ wpc' = "returned"
    /\ UNCHANGED <<engineVars, scenario, cancel_pc, cancel_seen, pushed, replayVars, crudVars, wsVars>>

\* cancel_simulation, lines 90-93: the row is read
CancelRead ==
    /\ cancel_pc = "idle"
    /\ IF run = NoRow
       THEN /\ cancel_pc' = "not_found"
            /\ UNCHANGED cancel_seen
       ELSE /\ cancel_pc' = "read"
            /\ cancel_seen' = run.status
    /\ UNCHANGED <<engineVars, run, scenario, wpc, pushed, replayVars, crudVars, wsVars>>

\* cancel_simulation, lines 95-102: refused when the status read is terminal, else
\* the row is set failed and committed
CancelWrite ==
    /\ cancel_pc = "read"
    /\ IF cancel_seen \in {"completed", "failed"}
       THEN /\ cancel_pc' = "refused"
            /\ UNCHANGED run
       ELSE /\ cancel_pc' = "cancelled"
            /\ run' = store_cancel(run)
    /\ UNCHANGED <<engineVars, scenario, wpc, cancel_seen, pushed, replayVars, crudVars, wsVars>>

\* celery_app.conf task_time_limit (worker.py line 20): when the hard time limit
\* passes, the pool process executing the task is killed; no statement of the
\* task runs afterwards, its except clause included
TaskTimeLimit ==
    /\ wpc = "running"
    /\ wpc' = "killed"
    /\ UNCHANGED <<engineVars, run, scenario, cancel_pc, cancel_seen, pushed, replayVars, crudVars, wsVars>>

\* engine.run inside the task (worker.py line 66): it steps while the task lives
EngineRuns == wpc = "running" /\ EngineNext

\* the steps of the worker process, one at a time
WorkerNext ==
    \/ TaskStart
    \/ TaskConstruct
    \/ EngineRuns
    \/ TaskStore
    \/ TaskFail

JobNext ==
    \/ WorkerNext
    \/ TaskTimeLimit
    \/ CancelRead
    \/ CancelWrite

JobSpec == JobInit /\ [][JobNext]_vars

\* the worker process is scheduled: it keeps executing the task it has taken until
\* the task returns or the process is killed; cancel requests and the time limit
\* are under no such obligation
JobFairSpec == JobSpec /\ WF_vars(WorkerNext)

(***************************************************************************)
(* Properties of the engine                                                *)
(***************************************************************************)
\* a step of the run loop that pops an event
LoopTurn == pc = "loop" /\ event_queue # <<>>

\* C1: during run, every popped event has the smallest time of all the events
\* queued at that moment, and current_time never decreases.
C1_EventsInTimeOrder ==
    [][LoopTurn =>
        /\ \A i \in DOMAIN event_queue : event'.time <= event_queue[i].time
        /\ current_time' = event'.time
        /\ current_time' >= current_time]_vars

\* an event scheduled by a handler has been handled while an arrival, scheduled
\* before the loop began, is still queued
C1_Witness ==
    /\ pc = "loop"
    /\ event.event_type \in {"triage_end", "discharge", "cleaning_end"}
    /\ \E i \in DOMAIN event_queue : event_queue[i].event_type = "arrival"

\* C4: each bed is in exactly one of occupied / cleaning / idle: never occupied
\* and cleaning at once, and an occupied bed names its patient.
C4_BedStateExclusive ==
    \A b \in DOMAIN beds :
        /\ ~(beds[b].is_occupied /\ beds[b].is_cleaning)
        /\ beds[b].is_occupied => beds[b].patient_id # None

\* a bed that was cleaned is occupied again while another bed is being cleaned
C4_Witness ==
    /\ \E b \in DOMAIN beds : beds[b].is_occupied /\ beds[b].available_at > 0
    /\ \E b \in DOMAIN beds : beds[b].is_cleaning

\* C5: no nurse ever has more than max_patients assigned patients.
C5_NurseLoadBounded ==
    \A n \in DOMAIN nurses :
        Len(nurses[n].assigned_patients) <= nurses[n].max_patients

\* a patient was admitted with every nurse full
C5_Witness ==
    /\ \A n \in DOMAIN nurses :
          Len(nurses[n].assigned_patients) = nurses[n].max_patients
    /\ \E i \in DOMAIN bottleneck_events :
          bottleneck_events[i].constraint = "nurse_staffing"

\* position in the bottleneck log of the denial of patient p for a constraint:
\* the order in which requests were denied
DenialIndex(constraint, p) ==
    CHOOSE i \in DOMAIN bottleneck_events :
        /\ bottleneck_events[i].constraint = constraint
        /\ bottleneck_events[i].patient_id = p

Waiting(queue) == {queue[i] : i \in DOMAIN queue}

\* C6: when cleaning_end fires with waiters, the patient admitted to the freed bed
\* is the one whose bed request was denied earliest among those waiting, and the
\* others keep their order.
C6_BedQueueFifo ==
    [][LoopTurn /\ event'.event_type = "cleaning_end" /\ bed_queue # <<>> =>
        \E p \in Waiting(bed_queue) :
            /\ \A q \in Waiting(bed_queue) :
                  DenialIndex("bed_availability", p) <= DenialIndex("bed_availability", q)
            /\ patients[p].bed_id = None
            /\ patients'[p].bed_id = event'.data.bed_id
            /\ bed_queue' = Tail(bed_queue)
            /\ Head(bed_queue) = p]_vars

\* a cleaning_end has admitted a waiter that waited, and another still waits
C6_Witness ==
    /\ event.event_type = "cleaning_end"
    /\ bed_queue # <<>>
    /\ \E p \in DOMAIN patients :
          /\ patients[p].bed_id = event.data.bed_id
          /\ patients[p].bed_assigned_time = event.time
          /\ patients[p].bed_assigned_time > patients[p].triage_time

\* C7: when imaging_end fires with waiters, the slot goes to the patient whose
\* imaging request was denied earliest among those waiting.
C7_ImagingQueueFifo ==
    [][LoopTurn /\ event'.event_type = "imaging_end" /\ imaging_queue # <<>> =>
        \E p \in Waiting(imaging_queue) :
            /\ \A q \in Waiting(imaging_queue) :
                  DenialIndex("imaging_capacity", p) <= DenialIndex("imaging_capacity", q)
            /\ patients'[p].imaging_start_time = event'.time
            /\ imaging_queue' = Tail(imaging_queue)
            /\ Head(imaging_queue) = p]_vars

\* an imaging_end has handed the slot to a waiter and another still waits
C7_Witness ==
    /\ event.event_type = "imaging_end"
    /\ imaging_queue # <<>>
    /\ \E p \in DOMAIN patients :
          /\ patients[p].imaging_start_time = event.time
          /\ p # event.entity_id

\* C8: 0 <= imaging_in_use <= imaging_capacity always; an imaging_request takes a
\* slot exactly when imaging_in_use < imaging_capacity and is enqueued otherwise.
C8_ImagingSlots ==
    /\ [](0 <= imaging_in_use /\ imaging_in_use <= imaging_capacity)
    /\ [][LoopTurn /\ event'.event_type = "imaging_request" =>
            IF imaging_in_use < imaging_capacity
            THEN /\ imaging_in_use' = imaging_in_use + 1
                 /\ imaging_queue' = imaging_queue
                 /\ patients'[event'.entity_id].imaging_start_time = event'.time
            ELSE /\ imaging_in_use' = imaging_in_use
                 /\ imaging_queue' = Append(imaging_queue, event'.entity_id)
                 /\ patients'[event'.entity_id].imaging_start_time = None]_vars

\* a request was enqueued with every slot of a non-empty pool in use
C8_Witness ==
    /\ event.event_type = "imaging_request"
    /\ imaging_capacity >= 1
    /\ imaging_in_use = imaging_capacity
    /\ imaging_queue # <<>>
    /\ imaging_queue[Len(imaging_queue)] = event.entity_id

\* C9: every discharged patient has discharge > bed_assigned >= triage_end > arrival.
C9_PhaseOrder ==
    \A p \in DOMAIN patients :
        patients[p].discharge_time # None =>
            /\ patients[p].discharge_time > patients[p].bed_assigned_time
            /\ patients[p].bed_assigned_time >= patients[p].triage_time
            /\ patients[p].triage_time > patients[p].arrival_time

\* a patient who got the bed from the bed-wait queue has been discharged, and so
\* has one who got it at triage end
C9_Witness ==
    /\ \E p \in DOMAIN patients :
          /\ patients[p].discharge_time # None
          /\ patients[p].bed_assigned_time > patients[p].triage_time
    /\ \E p \in DOMAIN patients :
          /\ patients[p].discharge_time # None
          /\ patients[p].bed_assigned_time = patients[p].triage_time

(***************************************************************************)
(* Properties of the event queue                                           *)
(***************************************************************************)
\* C2: two queued events with equal time are popped in the order they were
\* scheduled: no event still queued has the time of the event last popped and
\* was scheduled before it.
C2_TiesInInsertionOrder ==
    \A i \in DOMAIN event_queue :
        event_queue[i].time = event.time =>
            event.entity_id < event_queue[i].entity_id

(***************************************************************************)
(* Properties of the job runner                                            *)
(***************************************************************************)
\* how far along pending -> running -> completed or failed a status is
StatusRank(status) ==
    CASE status = "pending" -> 0
      [] status = "running" -> 1
      [] status \in {"completed", "failed"} -> 2
      [] OTHER -> 3

\* C10: the status of a run row only moves forward along pending -> running ->
\* completed or failed: a completed or failed row never changes status again, and
\* failed never goes back to running.
C10_StatusOnlyMovesForward ==
    [][run'.status # run.status => StatusRank(run'.status) > StatusRank(run.status)]_vars

(***************************************************************************)
(* Properties of the stored progress                                       *)
(***************************************************************************)
\* C11: the progress stored in a run row never decreases, and a completed row
\* holds progress = 100.
C11_ProgressNeverDecreases ==
    /\ [][run # NoRow => run'.progress >= run.progress]_vars
    /\ [](run.status = "completed" => run.progress = 100)

\* C12: every progress value the engine reports, and so every value written to
\* the run row, lies in 0..100.
C12_ProgressInRange ==
    /\ last_progress \in 0..100
    /\ run # NoRow => run.progress \in 0..100

(***************************************************************************)
(* Properties of the job runner's outcomes                                 *)
(***************************************************************************)
\* C13: when engine.run has raised and the task has returned, the run row is
\* failed with a non-empty error_message and completed_at set, its progress is
\* below 100 and it holds no metrics, timeseries or bottlenecks; the task
\* returns (the fault stays inside it).
C13_FaultCaught ==
    /\ (pc = "raised" /\ wpc = "returned") =>
          /\ run.status = "failed"
          /\ run.error_message # Null
          /\ run.error_message # <<"">>
          /\ run.completed_at # Null
          /\ run.progress < 100
          /\ run.metrics = Null
          /\ run.timeseries = Null
          /\ run.bottlenecks = Null
    /\ (pc = "raised" /\ wpc = "running") => ENABLED TaskFail

C13_Witness ==
    /\ pc = "raised"
    /\ wpc = "returned"
    /\ run.status = "failed"
    /\ run.error_message = <<"probabilities do not sum to 1">>

\* C14: when the task has returned because the scenario row was missing, the run
\* row (which exists) is failed and carries an error_message; it is not left
\* pending.
C14_MissingRowFails ==
    (wpc = "returned" /\ scenario = NoRow /\ run # NoRow) =>
        /\ run.status = "failed"
        /\ run.error_message # Null

\* C15: a run row with status completed holds metrics, timeseries, bottlenecks and
\* completed_at, and progress = 100, in every state a reader can observe.
C15_CompletedRowIsWhole ==
    run.status = "completed" =>
        /\ run.metrics # Null
        /\ run.timeseries # Null
        /\ run.bottlenecks # Null
        /\ run.completed_at # Null
        /\ run.progress = 100

C15_Witness ==
    /\ run.status = "completed"
    /\ wpc = "returned"
    /\ run.metrics = <<results.metrics>>

\* C16: a run row with status failed holds both error_message and completed_at,
\* whichever operation made it failed.
C16_FailedRowIsStamped ==
    run.status = "failed" =>
        /\ run.error_message # Null
        /\ run.completed_at # Null

\* C17: a run row that is running eventually becomes completed or failed, the
\* case where the worker is terminated at the time limit included.
C17_RunningEnds ==
    (run.status = "running") ~> (run.status \in {"completed", "failed"})

\* C18: once a cancel request has made the row failed while the worker is
\* executing the run, the worker's next write does not make the row completed and
\* does not store that execution's metrics, timeseries or bottlenecks.
C18_CancelledResultDiscarded ==
    [][(wpc = "running" /\ run.status = "failed"
            /\ run.error_message = <<"Cancelled by user">>)
         => /\ run'.status # "completed"
            /\ run'.metrics = Null
            /\ run'.timeseries = Null
            /\ run'.bottlenecks = Null]_vars

(***************************************************************************)
(* The replay streamer: one subscription to /replay, from the accepted     *)
(* connection to the frame that ends the stream                            *)
(***************************************************************************)
\* timestamps of stored events, in seconds after start_time: the start, inside the
\* first minute, the first tick boundary after the start, inside the last minute
\* and the end of the 24 hours
ReplayTimestamps == {0, 30, tick_interval, replay_horizon - 30, replay_horizon}

\* an events row, as far as the replay reads it
StoredEvent(id, unit_id, timestamp) ==
    [id |-> id, unit_id |-> unit_id, timestamp |-> timestamp]

\* the event logs of the unit: the stored id is the position
ReplayLogs ==
    UNION {{[i \in 1..n |-> StoredEvent(i, ReplayUnit, ts[i])] :
                ts \in [1..n -> ReplayTimestamps]} : n \in 0..MaxReplayEvents}

\* get_replay_delta, lines 136-144: the where clause of the events query
in_window(ev, unit_id, timestamp) ==
    /\ ev.unit_id = unit_id
    /\ ev.timestamp >= timestamp - replay_window
    /\ ev.timestamp <= timestamp

\* get_replay_delta: the ids of the event_markers of the delta (bed_changes and
\* metrics are derived from the same rows and from the bed rows)
get_replay_delta(log, unit_id, timestamp) ==
    [event_markers |-> {log[i].id : i \in {j \in DOMAIN log :
                                              in_window(log[j], unit_id, timestamp)}}]

replay_in_horizon_inclusive(t, end) == t <= end

\* replay_websocket, line 64: while current_time < end_time
replay_in_horizon(t, end) == t < end

replay_paused_never(playing) == FALSE

\* replay_websocket, line 87: if not is_playing
replay_paused(playing) == ~playing

\* replay_websocket, lines 78 and 80: datetime.fromisoformat(message.get("time"))
\* raises on a missing or malformed time, float(message.get("value", 1.0)) on a
\* value that is no number
raises_on_apply(message) ==
    /\ message.action \in {"seek", "speed"}
    /\ ~message.parses

\* replay_websocket, line 105: asyncio.sleep(1.0 / speed) raises ZeroDivisionError
raises_on_sleep(s) == s = 0

\* replay_websocket, lines 52-62: the connection is accepted with no start_time
\* other than the anchor, and the locals are set
ReplayInit ==
    /\ EngineIs([NoEngine EXCEPT !.rng_seed = <<0>>])
    /\ run = NoRow
    /\ scenario = NoRow
    /\ wpc = "none"
    /\ cancel_pc = "none"
    /\ cancel_seen = "none"
    /\ pushed = 0
    /\ CrudIdle
    /\ WsIdle
    /\ replay_time = 0
    /\ replay_end = replay_horizon
    /\ is_playing = TRUE
    /\ speed = DefaultSpeed
    /\ event_log \in ReplayLogs
    /\ replay_pc = "streaming"
    /\ tick_count = 0
    /\ complete_count = 0
    /\ error_count = 0
    /\ last_frame = NoFrame
    /\ marker_count = [i \in DOMAIN event_log |-> 0]
    /\ last_message = NoMessage
    /\ control_log = <<>>

\* replay_websocket, lines 107-112: the error frame is sent and the loop is left
SendError ==
    /\ error_count' = error_count + 1
    /\ last_frame' = [type |-> "error"]
    /\ replay_pc' = "finishing"

\* replay_websocket, lines 64-105: one turn of the loop, in which `message` was
\* received (NoMessage when the receive timed out) and the events query
\* succeeds (storage_ok) or raises
ReplayStep(message, storage_ok) ==
    /\ replay_pc = "streaming"
    /\ replay_in_horizon(replay_time, replay_end)
    /\ last_message' = message
    /\ control_log' = IF message = NoMessage THEN control_log
                      ELSE Append(control_log, message)
    /\ LET playing == CASE message.action = "pause" -> FALSE
                         [] message.action = "play" -> TRUE
                         [] OTHER -> is_playing
           cursor == IF message.action = "seek" THEN message.time ELSE replay_time
           newspeed == IF message.action = "speed" THEN message.value ELSE speed
           delta == get_replay_delta(event_log, ReplayUnit, cursor)
       IN  IF message.action = "stop"
           THEN /\ replay_pc' = "finishing"
                /\ UNCHANGED <<replay_time, is_playing, speed, tick_count, last_frame,
                               marker_count, error_count>>
           ELSE IF raises_on_apply(message)
           THEN /\ SendError
                /\ UNCHANGED <<replay_time, is_playing, speed, tick_count,
                               marker_count>>
           ELSE /\ is_playing' = playing
                /\ speed' = newspeed
                /\ IF replay_paused(playing)
                   THEN /\ replay_time' = cursor
                        /\ UNCHANGED <<tick_count, last_frame, marker_count,
                                       error_count, replay_pc>>
                   ELSE IF ~storage_ok
                   THEN /\ replay_time' = cursor
                        /\ SendError
                        /\ UNCHANGED <<tick_count, marker_count>>
                   ELSE /\ tick_count' = tick_count + 1
                        /\ marker_count' =
                              [i \in DOMAIN marker_count |->
                                  IF event_log[i].id \in delta.event_markers
                                  THEN marker_count[i] + 1
                                  ELSE marker_count[i]]
                        /\ replay_time' = cursor + tick_interval
                        /\ IF raises_on_sleep(newspeed)
                           THEN SendError
                           ELSE /\ last_frame' = [type |-> "tick",
                                                  timestamp |-> cursor,
                                                  delta |-> delta]
                                /\ UNCHANGED <<error_count, replay_pc>>
    /\ UNCHANGED <<engineVars, run, jobVars, pushed, crudVars, wsVars, replay_end, event_log,
                   complete_count>>

\* a turn of the loop in which no control message arrives
ReplayTick == ReplayStep(NoMessage, TRUE)

\* replay_websocket, lines 114-118: the loop is left and the completion message
\* is sent
ReplayComplete ==
    /\ \/ replay_pc = "finishing"
       \/ replay_pc = "streaming" /\ ~replay_in_horizon(replay_time, replay_end)
    /\ complete_count' = complete_count + 1
    /\ last_frame' = [type |-> "complete"]
    /\ replay_pc' = "closed"
    /\ UNCHANGED <<engineVars, run, jobVars, pushed, crudVars, wsVars, replay_time, replay_end,
                   is_playing, speed, event_log, tick_count, error_count,
                   marker_count, last_message, control_log>>

ReplayNext == ReplayTick \/ ReplayComplete

ReplaySpec == ReplayInit /\ [][ReplayNext]_vars

(***************************************************************************)
(* The replay streamer with a subscriber that sends control messages       *)
(***************************************************************************)
\* seek targets, in seconds after start_time: the start, the last tick of the
\* horizon, and the end of the horizon
SeekTimes == {0, replay_horizon - tick_interval, replay_horizon}

\* speed values of a speed message, in tenths: 0, 0.1, 10.0 and 20.0
SpeedValues == {0, 1, 100, 200}

\* the inbound frames of the control channel
ControlMessages ==
    {[action |-> a] : a \in {"pause", "play", "stop"}}
    \cup {[action |-> "seek", parses |-> TRUE, time |-> t] : t \in SeekTimes}
    \cup {[action |-> "seek", parses |-> FALSE]}
    \cup {[action |-> "speed", parses |-> TRUE, value |-> v] : v \in SpeedValues}
    \cup {[action |-> "speed", parses |-> FALSE]}

\* the stored events of the unit whose replay is controlled
ControlLog == <<StoredEvent(1, ReplayUnit, tick_interval)>>

ReplayControlInit ==
    /\ ReplayInit
    /\ event_log = ControlLog

\* a turn of the loop in which a control message is received
ReplayControl ==
    /\ Len(control_log) < MaxControls
    /\ tick_count <= MaxControlTick
    /\ \E message \in ControlMessages : ReplayStep(message, TRUE)

\* a turn of the loop in which the events query of get_replay_delta raises
ReplayStorageFault ==
    /\ is_playing
    /\ ReplayStep(NoMessage, FALSE)

ReplayControlNext ==
    \/ ReplayTick
    \/ ReplayControl
    \/ ReplayStorageFault
    \/ ReplayComplete

ReplayControlSpec == ReplayControlInit /\ [][ReplayControlNext]_vars

(***************************************************************************)
(* Properties of the replay streamer                                       *)
(***************************************************************************)
\* C19: in a replay with no control messages, every stored event of the unit
\* with a timestamp in the 24 hours from start_time is in the event_markers of
\* exactly one tick: never of two, and of one once the stream is complete.
C19_EveryEventInOneTick ==
    /\ \A i \in DOMAIN marker_count : marker_count[i] <= 1
    /\ replay_pc = "closed" => \A i \in DOMAIN marker_count : marker_count[i] = 1

\* C20: with no control messages and no errors, the k-th tick carries the
\* timestamp start_time + 60 (k - 1) s, no tick follows the complete frame, and
\* the stream ends with 24 h / 60 s = 1440 ticks and exactly one complete frame.
C20_OneTickPerMinute ==
    /\ [][tick_count' # tick_count =>
            /\ tick_count' = tick_count + 1
            /\ last_frame'.type = "tick"
            /\ last_frame'.timestamp = tick_count * 60
            /\ complete_count = 0]_vars
    /\ [](complete_count <= 1)
    /\ [](replay_pc = "closed" =>
            /\ tick_count = 1440
            /\ complete_count = 1
            /\ last_frame.type = "complete")

C20_Witness ==
    /\ replay_pc = "closed"
    /\ tick_count = 1440
    /\ last_frame.type = "complete"
    /\ event_log # <<>>

\* C21: once an error frame has been sent no further frame is sent (no tick, no
\* complete frame, no second error frame), so the stream holds exactly one error
\* frame and it is the last one.
C21_ErrorFrameIsLast ==
    [][error_count > 0 =>
          /\ error_count' = error_count
          /\ tick_count' = tick_count
          /\ complete_count' = complete_count]_vars

\* C22: the turn that applies a pause sends no tick and leaves the cursor; while
\* the stream stays paused no tick is sent and the cursor moves only by a seek;
\* the turn that applies play sends a tick carrying the pending cursor.
C22_PausedIsStill ==
    [][replay_pc = "streaming" /\ replay_pc' = "streaming" =>
          /\ (is_playing /\ ~is_playing') =>
                /\ tick_count' = tick_count
                /\ replay_time' = replay_time
          /\ (~is_playing /\ ~is_playing') =>
                /\ tick_count' = tick_count
                /\ (replay_time' # replay_time => last_message'.action = "seek")
          /\ (~is_playing /\ is_playing') =>
                /\ last_message'.action = "play"
                /\ tick_count' = tick_count + 1
                /\ last_frame' = [type |-> "tick", timestamp |-> replay_time,
                                  delta |-> last_frame'.delta]
                /\ replay_time' = replay_time + tick_interval]_vars

C22_Witness ==
    /\ control_log = <<[action |-> "pause"], [action |-> "play"]>>
    /\ last_message = [action |-> "play"]
    /\ is_playing
    /\ tick_count = 2
    /\ last_frame.type = "tick"
    /\ last_frame.timestamp = tick_interval

\* C23: the speed of the replay loop is within 0.1 .. 10.0 (1 .. 100 tenths),
\* whether it is the query value or was installed by a speed message.
C23_SpeedInRange == speed >= 1 /\ speed <= 100

(***************************************************************************)
(* Properties of the results and of admission                              *)
(***************************************************************************)
\* the time array of the timeseries a finished run returns
ReturnedTimes ==
    IF "time" \in DOMAIN results.timeseries THEN results.timeseries["time"] ELSE <<>>

\* C24: the time array of the timeseries a run returns is strictly increasing,
\* and consecutive samples are exactly 15 virtual minutes apart.
C24_TimeStepFifteen ==
    pc = "done" =>
        \A i \in 1..(Len(ReturnedTimes) - 1) :
            /\ ReturnedTimes[i + 1] > ReturnedTimes[i]
            /\ ReturnedTimes[i + 1] - ReturnedTimes[i] = 15

\* the queued discharge events of patient p
DischargesOf(p) ==
    {i \in DOMAIN event_queue :
        event_queue[i].event_type = "discharge" /\ event_queue[i].entity_id = p}

\* patient p has a record in patient_outcomes
InOutcomes(p) ==
    \E i \in DOMAIN patient_outcomes : patient_outcomes[i].patient_id = p

\* C25: no discharge is handled or queued at a virtual time >= 1440; a patient in
\* a bed whose discharge is neither queued nor done is one whose length of stay
\* could reach the horizon, still occupies the bed and has no record in
\* patient_outcomes; every record in patient_outcomes is of a patient discharged
\* before 1440.
C25_NoDischargeAtHorizon ==
    /\ event.event_type = "discharge" => event.time < 1440
    /\ \A i \in DOMAIN event_queue :
          event_queue[i].event_type = "discharge" => event_queue[i].time < 1440
    /\ \A p \in DOMAIN patients :
          /\ InOutcomes(p) =>
                patients[p].discharge_time # None /\ patients[p].discharge_time < 1440
          /\ (patients[p].bed_id # None /\ patients[p].discharge_time = None
                 /\ DischargesOf(p) = {}) =>
                /\ patients[p].bed_assigned_time
                      + los_range(patients[p].acuity)[2] - 1 >= 1440
                /\ beds[patients[p].bed_id].is_occupied
                /\ beds[patients[p].bed_id].patient_id = p
                /\ ~InOutcomes(p)

C25_Witness ==
    /\ pc = "done"
    /\ patient_outcomes # <<>>
    /\ \E p \in DOMAIN patients :
          /\ patients[p].bed_id # None
          /\ patients[p].discharge_time = None
          /\ beds[patients[p].bed_id].patient_id = p
          /\ ~InOutcomes(p)

\* the number of patients assigned to nurse n
LoadOf(n) == Len(nurses[n].assigned_patients)

\* patient p is given a nurse in this step
GetsNurse(p) ==
    /\ p \in DOMAIN patients
    /\ patients[p].nurse_id = None
    /\ patients'[p].nurse_id # None

\* C26: the nurse a patient is given at admission was under max_patients, no
\* nurse under max_patients had fewer patients, and no nurse with a lower id
\* under max_patients had as few.
C26_LeastLoadedNurse ==
    [][\A p \in DOMAIN patients :
          GetsNurse(p) =>
             LET n == patients'[p].nurse_id
             IN  /\ n \in DOMAIN nurses
                 /\ LoadOf(n) < max_patients
                 /\ nurses'[n].assigned_patients = Append(nurses[n].assigned_patients, p)
                 /\ \A m \in DOMAIN nurses :
                       LoadOf(m) < max_patients =>
                          /\ LoadOf(n) <= LoadOf(m)
                          /\ (m < n => LoadOf(n) < LoadOf(m))]_vars

\* two nurses were idle and the patient just admitted was given nurse 1
C26_Witness ==
    /\ Len(nurses) = 2
    /\ nurses[2].assigned_patients = <<>>
    /\ Len(nurses[1].assigned_patients) = 1
    /\ LET p == nurses[1].assigned_patients[1]
       IN  /\ patients[p].nurse_id = 1
           /\ patients[p].bed_assigned_time = current_time
           /\ event.entity_id = p

\* patient p is given a bed in this step
GetsBed(p) ==
    /\ p \in DOMAIN patients
    /\ patients[p].bed_id = None
    /\ patients'[p].bed_id # None

\* the events of the given type queued for patient p after the step
QueuedFor(p, type) ==
    {i \in DOMAIN event_queue' :
        event_queue'[i].event_type = type /\ event_queue'[i].entity_id = p}

\* C27: when a patient is given a bed while every nurse is at max_patients, one
\* nurse_staffing record without a queue length is appended, the patient has no
\* nurse, the bed is the patient's, and the imaging request (if the patient
\* requires imaging) and the discharge (if it falls before the horizon) are
\* queued as at any admission.
C27_AdmissionWithoutNurse ==
    [][\A p \in DOMAIN patients :
          (GetsBed(p) /\ \A n \in DOMAIN nurses : LoadOf(n) >= max_patients) =>
             LET b == patients'[p].bed_id
                 now == current_time'
                 los == los_range(patients[p].acuity)
             IN  /\ patients'[p].nurse_id = None
                 /\ nurses' = nurses
                 /\ Len(bottleneck_events') = Len(bottleneck_events) + 1
                 /\ LET rec == bottleneck_events'[Len(bottleneck_events')]
                    IN  /\ rec.constraint = "nurse_staffing"
                        /\ rec.patient_id = p
                        /\ rec.time = now
                        /\ "queue_length" \notin DOMAIN rec
                 /\ SubSeq(bottleneck_events', 1, Len(bottleneck_events))
                       = bottleneck_events
                 /\ beds'[b].is_occupied /\ beds'[b].patient_id = p
                 /\ patients'[p].bed_assigned_time = now
                 /\ IF patients[p].requires_imaging
                    THEN \E i \in QueuedFor(p, "imaging_request") :
                            event_queue'[i].time \in (now + 15)..(now + 44)
                    ELSE QueuedFor(p, "imaging_request") = {}
                 /\ \/ \E i \in QueuedFor(p, "discharge") :
                          /\ event_queue'[i].time < end_time
                          /\ event_queue'[i].time \in (now + los[1])..(now + los[2] - 1)
                    \/ /\ QueuedFor(p, "discharge") = {}
                       /\ now + los[2] - 1 >= end_time]_vars

\* the patient of the event just handled was admitted without a nurse
C27_Witness ==
    /\ bottleneck_events # <<>>
    /\ LET rec == bottleneck_events[Len(bottleneck_events)]
           p == rec.patient_id
       IN  /\ rec.constraint = "nurse_staffing"
           /\ rec.time = current_time
           /\ patients[p].bed_id # None
           /\ patients[p].bed_assigned_time = current_time
           /\ patients[p].nurse_id = None
           /\ beds[patients[p].bed_id].patient_id = p
           /\ \A n \in DOMAIN nurses : LoadOf(n) = max_patients

\* the event the next turn of the loop handles
NextEvent == heappop(event_queue).item

\* the bottleneck records this step appends
NewRecords ==
    {bottleneck_events'[i] : i \in (Len(bottleneck_events) + 1)..Len(bottleneck_events')}

\* C28: a bed request (triage_end) that leaves the patient without a bed, and an
\* imaging request that takes no slot, append the patient to the wait queue and
\* exactly one record of that constraint carrying the queue's new length (>= 1);
\* a granted request appends no record of that constraint, and no other step
\* appends one.
C28_DenialRecorded ==
    [][LoopTurn =>
          LET ev == NextEvent
              p == ev.entity_id
              last == bottleneck_events'[Len(bottleneck_events')]
              QueueRecords == {r \in NewRecords :
                  r.constraint \in {"bed_availability", "imaging_capacity"}}
          IN  CASE ev.event_type = "triage_end" /\ patients'[p].bed_id = None ->
                     /\ bed_queue' = Append(bed_queue, p)
                     /\ Len(bottleneck_events') = Len(bottleneck_events) + 1
                     /\ last = [time |-> ev.time, constraint |-> "bed_availability",
                                patient_id |-> p, queue_length |-> Len(bed_queue')]
                     /\ last.queue_length >= 1
                [] ev.event_type = "imaging_request"
                      /\ imaging_in_use' = imaging_in_use ->
                     /\ imaging_queue' = Append(imaging_queue, p)
                     /\ Len(bottleneck_events') = Len(bottleneck_events) + 1
                     /\ last = [time |-> ev.time, constraint |-> "imaging_capacity",
                                patient_id |-> p, queue_length |-> Len(imaging_queue')]
                     /\ last.queue_length >= 1
                [] OTHER -> QueueRecords = {}]_vars

\* an imaging request was just denied behind an earlier one, and a bed request
\* was denied before
C28_Witness ==
    /\ bottleneck_events # <<>>
    /\ event.event_type = "imaging_request"
    /\ LET rec == bottleneck_events[Len(bottleneck_events)]
       IN  /\ rec.constraint = "imaging_capacity"
           /\ rec.time = current_time
           /\ rec.patient_id = event.entity_id
           /\ rec.queue_length = Len(imaging_queue)
    /\ \E i \in DOMAIN bottleneck_events :
          bottleneck_events[i].constraint = "bed_availability"

\* C30: on a bed request (triage_end), a patient who needs isolation is given an
\* available isolation bed (bed 1 or bed N) in preference to standard beds, any
\* other patient is given the lowest-id available bed, and the patient is queued
\* only when no bed is available. The engine's patient carries no isolation flag
\* and _request_bed reads none, so the statement has to hold whether or not the
\* requesting patient needs isolation.
C30_IsolationPreferred ==
    [][(LoopTurn /\ NextEvent.event_type = "triage_end") =>
          LET p == NextEvent.entity_id
              now == NextEvent.time
              Available == {b \in DOMAIN beds : bed_is_available(beds[b], now)}
              Isolation == {b \in Available : beds[b].bed_type = "isolation"}
              given == patients'[p].bed_id
          IN  \A is_isolation \in BOOLEAN :
                 IF Available = {}
                 THEN given = None /\ bed_queue' = Append(bed_queue, p)
                 ELSE IF is_isolation /\ Isolation # {}
                 THEN given \in Isolation
                 ELSE /\ given \in Available
                      /\ \A b \in Available : given <= b]_vars

\* the timestamp of the tick frame this step sends: the cursor is advanced by
\* tick_interval right after the frame
TickTimestamp == replay_time' - tick_interval

\* C32: every tick frame carries a timestamp earlier than start_time + 24h,
\* whatever control messages (seek included) were received.
C32_TickInsideHorizon ==
    [][tick_count' # tick_count => TickTimestamp < replay_end]_vars

\* the time array of the timeseries collected so far
SampleTimes == IF "time" \in DOMAIN timeseries THEN timeseries["time"] ELSE <<>>

\* C33: the engine clock stays inside the horizon: the event just handled, of
\* whatever type, has a time below 1440, and so has every timeseries sample.
C33_ClockInsideHorizon ==
    /\ current_time < end_time
    /\ event.event_type # "none" => event.time < end_time
    /\ \A i \in DOMAIN SampleTimes : SampleTimes[i] < end_time

\* patient p is given an imaging slot in this step: imaging_start is stamped and
\* an imaging_end is queued for the patient
StartsImaging(p) ==
    /\ p \in DOMAIN patients
    /\ patients'[p].imaging_start_time # patients[p].imaging_start_time

\* C34: no imaging slot is acquired for, and imaging_start is not stamped on, a
\* patient who has already been discharged.
C34_NoImagingAfterDischarge ==
    [][\A p \in DOMAIN patients :
          StartsImaging(p) => patients[p].discharge_time = None]_vars

\* the imaging_end events queued for patient p before the step
ImagingEndsOf(p) ==
    {i \in DOMAIN event_queue :
        event_queue[i].event_type = "imaging_end" /\ event_queue[i].entity_id = p}

\* C35: when an imaging_end is handled while the imaging wait queue is non-empty,
\* the head waiter takes the slot in the same step: imaging_in_use is unchanged,
\* the waiter leaves the queue, its imaging_start is stamped with the current
\* time, and exactly one imaging_end is queued for it, at a later time.
C35_SlotHandedToWaiter ==
    [][(LoopTurn /\ NextEvent.event_type = "imaging_end" /\ imaging_queue # <<>>) =>
          LET waiter == Head(imaging_queue)
              now == current_time'
          IN  /\ imaging_in_use' = imaging_in_use
              /\ imaging_queue' = Tail(imaging_queue)
              /\ patients'[waiter].imaging_start_time = now
              /\ ImagingEndsOf(waiter) = {}
              /\ Cardinality(QueuedFor(waiter, "imaging_end")) = 1
              /\ \A i \in QueuedFor(waiter, "imaging_end") :
                    event_queue'[i].time > now]_vars

\* an imaging_end has just handed its slot to a waiter with another still queued
C35_Witness ==
    /\ event.event_type = "imaging_end"
    /\ imaging_in_use = imaging_capacity
    /\ imaging_queue # <<>>
    /\ \E p \in DOMAIN patients :
          /\ p # event.entity_id
          /\ patients[p].imaging_start_time = current_time
          /\ \E i \in DOMAIN event_queue :
                /\ event_queue[i].event_type = "imaging_end"
                /\ event_queue[i].entity_id = p

\* C36: between event handlers, when the bed-wait queue is non-empty no bed is
\* idle: every bed is occupied or being cleaned.
C36_NoIdleBedWhileWaiting ==
    bed_queue # <<>> =>
        \A b \in DOMAIN beds : beds[b].is_occupied \/ beds[b].is_cleaning

\* a cleaning_end has just given its bed to the head of the bed-wait queue while
\* another patient still waits
C36_Witness ==
    /\ event.event_type = "cleaning_end"
    /\ bed_queue # <<>>
    /\ beds[event.data.bed_id].is_occupied
    /\ patients[beds[event.data.bed_id].patient_id].bed_assigned_time = current_time

\* C37: between event handlers, when the imaging wait queue is non-empty every
\* imaging slot is in use; and when the run has ended with an imaging capacity
\* of at least 1, the imaging wait queue is empty.
C37_NoIdleSlotWhileWaiting ==
    /\ imaging_queue # <<>> => imaging_in_use = imaging_capacity
    /\ (pc = "done" /\ imaging_capacity >= 1) => imaging_queue = <<>>

\* a run with at least one imaging slot has ended after patients had waited for
\* imaging
C37_Witness ==
    /\ pc = "done"
    /\ imaging_capacity >= 1
    /\ \E i \in DOMAIN bottleneck_events :
          /\ bottleneck_events[i].constraint = "imaging_capacity"
          /\ bottleneck_events[i].queue_length >= 2

\* the positions patient p holds in the bed-wait queue
WaitsAt(p) == {i \in DOMAIN bed_queue : bed_queue[i] = p}

\* the beds that hold patient p
HeldBy(p) == {b \in DOMAIN beds : beds[b].patient_id = p}

\* the records of patient p in patient_outcomes
OutcomesOf(p) == {i \in DOMAIN patient_outcomes : patient_outcomes[i].patient_id = p}

\* patient p waits for a bed, once, and is nowhere else
IsWaiting(p) ==
    /\ Cardinality(WaitsAt(p)) = 1
    /\ HeldBy(p) = {}
    /\ patients[p].discharge_time = None
    /\ OutcomesOf(p) = {}

\* patient p occupies one bed, and is nowhere else
IsInBed(p) ==
    /\ WaitsAt(p) = {}
    /\ HeldBy(p) = {patients[p].bed_id}
    /\ beds[patients[p].bed_id].is_occupied
    /\ patients[p].discharge_time = None
    /\ OutcomesOf(p) = {}

\* patient p is discharged with one outcome record, and is nowhere else
IsDischarged(p) ==
    /\ WaitsAt(p) = {}
    /\ HeldBy(p) = {}
    /\ patients[p].discharge_time # None
    /\ Cardinality(OutcomesOf(p)) = 1

\* C38: between event handlers, every patient whose triage has ended is in
\* exactly one place: once in the bed-wait queue, or in exactly one bed (the bed
\* names the patient and the patient names the bed), or discharged with exactly
\* one outcome record; and no two beds hold the same patient.
C38_PatientsConserved ==
    /\ \A p \in DOMAIN patients :
          patients[p].triage_time # None =>
             (IsWaiting(p) \/ IsInBed(p) \/ IsDischarged(p))
    /\ \A b1, b2 \in DOMAIN beds :
          (beds[b1].patient_id # None /\ beds[b1].patient_id = beds[b2].patient_id) =>
             b1 = b2

\* a run has a patient waiting, a patient in a bed and a discharged patient at once
C38_Witness ==
    /\ \E p \in DOMAIN patients : patients[p].triage_time # None /\ IsWaiting(p)
    /\ \E p \in DOMAIN patients : patients[p].triage_time # None /\ IsInBed(p)
    /\ \E p \in DOMAIN patients : patients[p].triage_time # None /\ IsDischarged(p)

(***************************************************************************)
(* Termination of run.  Every turn of the loop pops one event and queues   *)
(* at most the follow-ups of its handler; EventsOwed bounds the turns      *)
(* still to come by counting, for every queued event and every waiting     *)
(* patient, the event itself and all it can still cause.                   *)
(***************************************************************************)
\* the turns an event of the given type can still cause, itself included:
\* cleaning_end and imaging_end end a chain, discharge is followed by a
\* cleaning_end, imaging_request by an imaging_end, triage_end by an admission,
\* arrival by a triage_end
EventWeight(type) ==
    CASE type = "cleaning_end"    -> 1
      [] type = "imaging_end"     -> 1
      [] type = "discharge"       -> 2
      [] type = "imaging_request" -> 2
      [] type = "triage_end"      -> 5
      [] type = "arrival"         -> 6
      [] OTHER                    -> 1

\* the events the run still owes: those queued, four for every patient waiting
\* for a bed (an admission queues at most an imaging_request and a discharge)
\* and one for every patient waiting for imaging (a handed-over slot queues
\* one imaging_end)
EventsOwed ==
    SeqSum([i \in DOMAIN event_queue |-> EventWeight(event_queue[i].event_type)])
        + 4 * Len(bed_queue)
        + Len(imaging_queue)

\* the loop of run can take its next turn: the queue is empty and the results
\* are calculated, or the event at its head is popped and dispatched
TurnPossible ==
    pc = "loop" =>
        \/ event_queue = <<>>
        \/ NextEvent.event_type \in {"arrival", "triage_end", "imaging_request",
                                     "imaging_end", "discharge", "cleaning_end"}

\* every turn of the loop that pops an event lowers EventsOwed, which is never
\* negative; the turn on an empty queue ends the run with the results set
LoopRunsDown ==
    [][pc = "loop" =>
          IF event_queue # <<>>
          THEN pc' = "loop" /\ EventsOwed' < EventsOwed /\ EventsOwed' >= 0
          ELSE pc' = "done" /\ "metrics" \in DOMAIN results']_vars

\* run ends only through its return or through a raise of _generate_arrivals
StaysEnded == [][(pc \in {"done", "raised"}) => pc' = pc]_vars

TransportCapacities == {2, 5, 10, 50}

\* the engine a run with the same seed is constructed as when only
\* transport_capacity differs, with the two fields that hold it set back
TwinEngine(c) ==
    [NewEngine([params EXCEPT !.transport_capacity = c], rng_seed)
        EXCEPT !.params = params, !.transport_capacity = transport_capacity]

MaxScenarios == 3
\* simulation runs started on one scenario
MaxRuns == 2

\* create_scenario, lines 53-58: the row that is added
ScenarioRow(is_baseline) ==
    [present |-> TRUE, is_baseline |-> is_baseline, runs |-> 0]

\* select(Scenario).where(Scenario.id == scenario_id) ... scalar_one_or_none()
\* finds a row
scenario_found(table, scenario_id) ==
    scenario_id \in 1..Len(table) /\ table[scenario_id].present

ScenarioResponse(op, scenario_id, status) ==
    [op |-> op, id |-> scenario_id, status |-> status]

\* create_scenario, lines 47-62: is_baseline is taken from the request body
create_scenario(is_baseline) ==
    /\ Len(scenarios) < MaxScenarios
    /\ scenarios' = Append(scenarios, ScenarioRow(is_baseline))
    /\ scenario_response' = ScenarioResponse("create", Len(scenarios) + 1, 200)

\* update_scenario, lines 65-83: name, description and parameters are replaced,
\* is_baseline is not
update_scenario(scenario_id) ==
    /\ scenario_response' =
          ScenarioResponse("update", scenario_id,
                           IF scenario_found(scenarios, scenario_id) THEN 200 ELSE 404)
    /\ UNCHANGED scenarios

\* start_simulation, lines 22-48: a simulation_runs row with this scenario_id is
\* added when the scenario exists
start_simulation(scenario_id) ==
    IF ~scenario_found(scenarios, scenario_id)
    THEN /\ scenario_response' = ScenarioResponse("run", scenario_id, 404)
         /\ UNCHANGED scenarios
    ELSE /\ scenarios[scenario_id].runs < MaxRuns
         /\ scenarios' = [scenarios EXCEPT ![scenario_id].runs = @ + 1]
         /\ scenario_response' = ScenarioResponse("run", scenario_id, 200)

delete_refused_never(row) == FALSE

\* delete_scenario, line 94: if scenario.is_baseline
delete_refused(row) == row.is_baseline

\* Scenario.simulation_runs has no delete cascade and SimulationRun.scenario_id is
\* NOT NULL: deleting a scenario first sets the scenario_id of its runs to NULL,
\* which the database rejects
violates_not_null(row) == row.runs > 0

\* delete_scenario, lines 86-100
delete_scenario(scenario_id) ==
    IF ~scenario_found(scenarios, scenario_id)
    THEN /\ scenario_response' = ScenarioResponse("delete", scenario_id, 404)
         /\ UNCHANGED scenarios
    ELSE IF delete_refused(scenarios[scenario_id])
    THEN /\ scenario_response' = ScenarioResponse("delete", scenario_id, 400)
         /\ UNCHANGED scenarios
    ELSE IF violates_not_null(scenarios[scenario_id])
    THEN \* the commit raises IntegrityError and the request is answered 500
         /\ scenario_response' = ScenarioResponse("delete", scenario_id, 500)
         /\ UNCHANGED scenarios
    ELSE /\ scenarios' = [scenarios EXCEPT ![scenario_id].present = FALSE]
         /\ scenario_response' = ScenarioResponse("delete", scenario_id, 200)

\* the API with an empty scenarios table; no engine, worker or replay is running
ScenarioInit ==
    /\ EngineIs([NoEngine EXCEPT !.rng_seed = <<0>>])
    /\ run = NoRow
    /\ scenario = NoRow
    /\ wpc = "none"
    /\ cancel_pc = "none"
    /\ cancel_seen = "none"
    /\ pushed = 0
    /\ CrudIdle
    /\ WsIdle
    /\ ReplayIdle

CreateScenario ==
    /\ \E is_baseline \in BOOLEAN : create_scenario(is_baseline)
    /\ UNCHANGED <<engineVars, run, jobVars, pushed, replayVars, wsVars>>

UpdateScenario ==
    /\ \E scenario_id \in 1..MaxScenarios : update_scenario(scenario_id)
    /\ UNCHANGED <<engineVars, run, jobVars, pushed, replayVars, wsVars>>

StartSimulation ==
    /\ \E scenario_id \in 1..MaxScenarios : start_simulation(scenario_id)
    /\ UNCHANGED <<engineVars, run, jobVars, pushed, replayVars, wsVars>>

DeleteScenario ==
    /\ \E scenario_id \in 1..MaxScenarios : delete_scenario(scenario_id)
    /\ UNCHANGED <<engineVars, run, jobVars, pushed, replayVars, wsVars>>

ScenarioNext == CreateScenario \/ UpdateScenario \/ StartSimulation \/ DeleteScenario

ScenarioSpec == ScenarioInit /\ [][ScenarioNext]_vars

\* a delete request on an existing scenario has just been answered
DeleteAnswered ==
    /\ scenario_response'.op = "delete"
    /\ crudVars' # crudVars
    /\ scenario_found(scenarios, scenario_response'.id)

\* the delete just answered failed and left the table as it was
DeleteFailed ==
    /\ scenario_response'.status >= 400
    /\ scenarios' = scenarios

\* the delete just answered removed the row
DeleteRemoved ==
    /\ scenario_response'.status = 200
    /\ ~scenario_found(scenarios', scenario_response'.id)

ProgressSeeds == {[i \in 1..SeedLen |-> 0], [i \in 1..SeedLen |-> 1]}

\* simulation_progress_ws, lines 123-130: the frame of a row
status_frame(row) ==
    [type |-> "status", status |-> row.status, progress |-> row.progress,
     started_at |-> row.started_at, completed_at |-> row.completed_at,
     error_message |-> row.error_message]

\* simulation_progress_ws, line 120
not_found_frame == [type |-> "error", error |-> "Run not found"]

ws_terminal_never(status) == FALSE

\* simulation_progress_ws, line 132
ws_terminal(status) == status \in {"completed", "failed"}

\* the socket is accepted (line 108) while the task is queued
ProgressInit ==
    /\ \E seed \in ProgressSeeds : EngineIs([NoEngine EXCEPT !.rng_seed = seed])
    /\ run \in {NewRun, NoRow}
    /\ scenario \in {[parameters |-> p] : p \in JobParameters} \cup {NoRow}
    /\ wpc = "queued"
    /\ cancel_pc = "idle"
    /\ cancel_seen = "none"
    /\ pushed = 0
    /\ CrudIdle
    /\ ReplayIdle
    /\ ws_pc = "open"
    /\ ws_frame = NoWsFrame
    /\ ws_seq = 0

\* simulation_progress_ws, lines 111-135: one turn of the loop
WsPoll ==
    /\ ws_pc = "open"
    /\ IF run = NoRow
       THEN /\ ws_frame' = not_found_frame
            /\ ws_pc' = "closed"
       ELSE /\ ws_frame' = status_frame(run)
            /\ ws_pc' = IF ws_terminal(run.status) THEN "closed" ELSE "open"
    /\ ws_seq' = 1 - ws_seq
    /\ UNCHANGED <<engineVars, run, jobVars, pushed, replayVars, crudVars>>

\* simulation_progress_ws, lines 137-138: the client has gone and the handler
\* leaves on WebSocketDisconnect
WsDisconnect ==
    /\ ws_pc = "open"
    /\ ws_pc' = "disconnected"
    /\ UNCHANGED <<engineVars, run, jobVars, pushed, replayVars, crudVars,
                   ws_frame, ws_seq>>

ProgressNext == JobNext \/ WsPoll \/ WsDisconnect

ProgressSpec == ProgressInit /\ [][ProgressNext]_vars

\* the socket's loop is a task of the event loop that wakes every second
\* (line 135) while it is open; nothing is assumed of the worker or of cancel
\* requests
ProgressFairSpec == ProgressSpec /\ WF_vars(WsPoll)

\* the run row holds a terminal status
RunTerminal == run # NoRow /\ run.status \in {"completed", "failed"}

\* the last frame sent is a status frame carrying completed or failed
TerminalFrameSent ==
    ws_frame.type = "status" /\ ws_frame.status \in {"completed", "failed"}

\* no frame is sent by a socket that is not open
NoFrameOnceStopped == [][ws_pc # "open" => ws_seq' = ws_seq /\ ws_frame' = ws_frame]_vars

====
